---------------------------- MODULE Spec2Model ----------------------------
(*
  djangosaml2 views (src/djangosaml2/views.py): the SAML SP views as a state
  machine.  One browser session holds the outstanding-queries store, the
  stored subject id and the authentication state.  Each view is one action
  of Spec; SpecConc splits AssertionConsumerServiceView.post into the steps
  at which two concurrent requests of one session can interleave.

  The toolkit (pysaml2), the local authentication backend and the template
  renderer are collaborators: what they return on a call is an input of the
  action, drawn from a small set.
*)
EXTENDS Naturals, Integers, Sequences, FiniteSets, TLC

(* ------------------------------ bounds -------------------------------- *)

\* request ids the toolkit can hand out: 1..MaxIds, each at most once
MaxIds == 2

\* the largest number of entities in one global_logout result
MaxEntities == 2

Ids == 1..MaxIds

\* InResponseTo values a response can carry; 0 is an id this SP never issued
ResponseIds == 0..MaxIds

Sessions == {"A", "B"}

Workers == {"w1", "w2"}

\* the browser session whose views Spec runs
OneSession == {"A"}

(* ------------------------------ values -------------------------------- *)

None == "None"

BINDING_HTTP_REDIRECT == "HTTP-Redirect"

BINDING_HTTP_POST == "HTTP-POST"

BINDING_SOAP == "SOAP"

\* settings.LOGIN_REDIRECT_URL
LOGIN_REDIRECT_URL == "/home"

\* settings.LOGOUT_REDIRECT_URL
LOGOUT_REDIRECT_URL == "/bye"

\* a key that is absent from request.GET / request.POST
Absent == "<absent>"

\* URLs the browser can send as next= or RelayState=
SafeUrls == {"/dashboard", "/other"}

UnsafeUrl == "//evil.example"

NextParams == {Absent, "", "/dashboard", UnsafeUrl}

RelayParams == {Absent, "", "/dashboard", "/other", LOGIN_REDIRECT_URL, UnsafeUrl}

\* name ids an IdP asserts
Subjects == {"alice", "bob"}

VARIABLES
  conf,                \* the SP configuration and the settings login reads
  allow_unsolicited,   \* conf.allow_unsolicited of the SP configuration
  outstanding,         \* per session: session['_saml2_outstanding_queries'], id -> came_from
  subject,             \* per session: session['_saml2_subject_id'] or None
  is_authenticated,    \* per session: request.user.is_authenticated
  state,               \* per session: session['_saml2_state'], the operations ("SLO")
                       \* of this SP with a request pending
  nextId,              \* the next request id the toolkit hands out
  correlated,          \* per id: how often ACS matched a response to the stored exchange
  acs,                 \* per worker: an ACS request in flight (SpecConc)
  last                 \* the last completed view call and what it did

vars == <<conf, allow_unsolicited, outstanding, subject, is_authenticated, state,
          nextId, correlated, acs, last>>

(* --------------------------- session store ---------------------------- *)

EmptyMap == [x \in {} |-> None]

\* OutstandingQueriesCache.outstanding_queries
outstanding_queries(db) == db

\* OutstandingQueriesCache.set
oq_set(db, id, came_from) ==
  [x \in (DOMAIN db) \cup {id} |-> IF x = id THEN came_from ELSE db[x]]

\* OutstandingQueriesCache.delete
oq_delete(db, id) ==
  IF id \in DOMAIN db THEN [x \in (DOMAIN db) \ {id} |-> db[x]] ELSE db

\* get_saml_request_session(request): the store of the request's browser session
get_saml_request_session(s) == s

\* validate_referral_url: an unsafe URL is replaced by LOGIN_REDIRECT_URL
validate_referral_url(url) ==
  IF url \in SafeUrls \cup {LOGIN_REDIRECT_URL, LOGOUT_REDIRECT_URL, "/"}
  THEN url ELSE LOGIN_REDIRECT_URL

(* ----------------------------- POST data ------------------------------ *)

\* what can be wrong with a SAML response by itself; whether its InResponseTo
\* is outstanding is decided by the store, not by the response
Defects ==
  {"none", "bad_signature", "missing_key", "too_early", "expired", "status_failed"}

\* the responses an IdP (or an attacker) can post: a SAML response carries an
\* InResponseTo and at most one defect of its own
Responses == [kind : {"xml"}, irt : ResponseIds, defect : Defects]

\* POST data without a SAMLResponse key ("absent"), or with one that cannot
\* be unravelled ("garbled")
NoResponse(kind) == [kind |-> kind, irt |-> 0, defect |-> "none"]

PostData == {NoResponse("absent"), NoResponse("garbled")} \cup Responses

(* ----------------------------- call record ---------------------------- *)

Blank ==
  [op |-> "init", sess |-> None, outcome |-> None, events |-> <<>>,
   id |-> 0, built |-> <<>>, stored |-> None, location |-> None,
   matched |-> FALSE, n |-> 0, delivered |-> {}, subj |-> None,
   binding |-> None, sigalg |-> None, sign |-> None, raised |-> None,
   idpParam |-> FALSE, typeErr |-> "none", carried |-> 0,
   x |-> NoResponse("absent"), relay |-> Absent, result |-> <<>>, data |-> {},
   response |-> None, again |-> FALSE]

\* how many times event e occurs in the event sequence es
RECURSIVE Count(_, _)
Count(es, e) ==
  IF es = <<>> THEN 0
  ELSE (IF Head(es) = e THEN 1 ELSE 0) + Count(Tail(es), e)

\* the position of the first occurrence of e in es, 0 if there is none
FirstIndex(es, e) ==
  IF \E i \in 1..Len(es) : es[i] = e
  THEN CHOOSE i \in 1..Len(es) : es[i] = e /\ \A j \in 1..(i - 1) : es[j] # e
  ELSE 0

(* ------------------------------- login -------------------------------- *)

\* lines 104-108: the came_from of a login request
login_came_from(next) ==
  validate_referral_url(IF next = Absent \/ next = "" THEN LOGIN_REDIRECT_URL ELSE next)

\* a view that shows the discovery page whenever there are several IdPs
login_discovery_many(idpParam, nIdps) == nIdps > 1

\* line 150: is an embedded wayf needed?
login_discovery(idpParam, nIdps) == ~idpParam /\ nIdps > 1

\* a view that goes on without an IdP
login_idp_missing_never(nIdps) == FALSE

\* lines 158-160: IdPConfigurationMissing is raised
login_idp_missing(nIdps) == nIdps = 0

\* a view that does not look at the bindings of the IdP
login_binding_first(sign_requests, supported) ==
  IF sign_requests THEN BINDING_HTTP_POST ELSE BINDING_HTTP_REDIRECT

\* lines 164-185: the binding login uses, or None when UnsupportedBinding is raised
login_binding(sign_requests, supported) ==
  LET first == IF sign_requests THEN BINDING_HTTP_POST ELSE BINDING_HTTP_REDIRECT
      other == IF first = BINDING_HTTP_POST THEN BINDING_HTTP_REDIRECT
               ELSE BINDING_HTTP_POST
  IN  IF first \in supported THEN first
      ELSE IF other \in supported THEN other
      ELSE None

\* a view to which a missing form template is an error
login_build_strict(binding, tmpl, typeErr, id) ==
  IF binding = BINDING_HTTP_POST /\ tmpl = "missing"
  THEN [outcome |-> "TemplateDoesNotExist", built |-> <<id>>, carried |-> 0]
  ELSE [outcome |-> IF binding = BINDING_HTTP_REDIRECT THEN "redirect_to_idp"
                    ELSE "post_form_template",
        built |-> <<id>>, carried |-> id]

\* lines 187-250: what login builds once the binding is chosen.
\* tmpl is the state of post_binding_form_template ("ok", "missing", "none"),
\* typeErr the toolkit call that raises TypeError ("none", "sso_location", "prepare").
\* The result names the outcome, the ids of the requests built, in order, and
\* the id of the request that http_response carries (0: there is no response).
login_build(binding, tmpl, typeErr, id) ==
  IF binding = BINDING_HTTP_REDIRECT
  THEN IF typeErr = "prepare"
       THEN [outcome |-> "type_error", built |-> <<>>, carried |-> 0]
       ELSE [outcome |-> "redirect_to_idp", built |-> <<id>>, carried |-> id]
  ELSE IF tmpl # "none" /\ typeErr = "sso_location"
       THEN [outcome |-> "type_error", built |-> <<>>, carried |-> 0]
  ELSE IF tmpl = "ok"
       THEN [outcome |-> "post_form_template", built |-> <<id>>, carried |-> id]
  ELSE IF typeErr = "prepare"
       THEN [outcome |-> "type_error",
             built |-> IF tmpl = "missing" THEN <<id>> ELSE <<>>, carried |-> 0]
  ELSE IF tmpl = "missing"
       THEN [outcome |-> "post_form_default", built |-> <<id, id + 1>>,
             carried |-> id + 1]
  ELSE [outcome |-> "post_form_default", built |-> <<id>>, carried |-> id]

\* a view that asks for a signature on every redirect
login_sigalg_always(binding, sign_requests, sig_alg_option) == "SIG_RSA_SHA1"

\* lines 194-200: the sigalg keyword of prepare_for_authenticate on the Redirect
\* path: None when it is not passed, "KeyError" when the configured option is
\* not in sig_alg_option_map
SigAlgOptions == {"sha1", "sha256", "sha512"}

login_sigalg(binding, sign_requests, sig_alg_option) ==
  IF binding = BINDING_HTTP_REDIRECT /\ sign_requests
  THEN CASE sig_alg_option = "sha1"   -> "SIG_RSA_SHA1"
         [] sig_alg_option = "sha256" -> "SIG_RSA_SHA256"
         [] OTHER -> "KeyError"
  ELSE None

\* lines 201-204, 218-221, 241-243: the sign keyword of the toolkit call that
\* builds the request: False on the Redirect path, left to the toolkit otherwise
login_sign(binding) ==
  IF binding = BINDING_HTTP_REDIRECT THEN "False" ELSE "default"

\* a view that saves the id of the first request it built
login_session_id_first(built) == built[1]

\* lines 252-257: the request id saved in the outstanding-queries store
login_session_id(built) == built[Len(built)]

\* a login that writes the exchange to a store the ACS does not read
login_store_separate(s) == IF s = "A" THEN "B" ELSE "A"

\* lines 252-255: the store login writes the exchange to
login_store(s) == get_saml_request_session(s)

\* the bindings get_idp_sso_supported_bindings can return
SupportedBindings ==
  (SUBSET {BINDING_HTTP_REDIRECT, BINDING_HTTP_POST}) \cup {{BINDING_SOAP}}

\* what login reads from the configuration of the deployment: the number of
\* usable IdPs (line 149), _sp_authn_requests_signed (165), the bindings of
\* the IdP (170), _sp_authn_requests_signed_alg (199) and the state of
\* post_binding_form_template (211, 235): "ok", "missing" or "none"
Confs ==
  [nIdps : 0..2, sign_requests : BOOLEAN, supported : SupportedBindings,
   tmpl : {"ok", "missing", "none"}, sig_alg_option : SigAlgOptions]

\* lines 82-257.  The inputs are read where the code reads them: the next
\* parameter, the settings, the idp parameter and what the toolkit returns.
login(s) ==
  \E next \in NextParams :
  LET came_from == login_came_from(next)
      rec       == [Blank EXCEPT !.op = "login", !.sess = s, !.location = came_from]
      quiet(r, o) == /\ last' = [r EXCEPT !.outcome = o]
                     /\ UNCHANGED <<outstanding, nextId>>
  IN
  /\ UNCHANGED <<conf, allow_unsolicited, subject, is_authenticated, state,
                 correlated, acs>>
  /\ IF is_authenticated[s]
     THEN \E ignoreAuthenticated \in BOOLEAN :
            quiet(rec, IF ignoreAuthenticated THEN "redirect_came_from"
                       ELSE "authorization_error")
     ELSE \E sourceNotFound \in BOOLEAN :
       IF sourceNotFound THEN quiet(rec, "source_not_found")
       ELSE \E idpParam \in BOOLEAN :
         LET rec1 == [rec EXCEPT !.idpParam = idpParam] IN
         IF login_discovery(idpParam, conf.nIdps) THEN quiet(rec1, "discovery")
         ELSE IF login_idp_missing(conf.nIdps)
         THEN quiet(rec1, "IdPConfigurationMissing")
         ELSE
           LET binding == login_binding(conf.sign_requests, conf.supported) IN
           IF binding = None THEN quiet(rec1, "UnsupportedBinding")
           ELSE
             LET sigalg == login_sigalg(binding, conf.sign_requests,
                                        conf.sig_alg_option)
                 rec2 == [rec1 EXCEPT !.binding = binding]
             IN
             IF sigalg = "KeyError" THEN quiet(rec2, "KeyError")
             ELSE \E typeErr \in IF binding = BINDING_HTTP_POST
                                  THEN {"none", "sso_location", "prepare"}
                                  ELSE {"none", "prepare"} :
               LET b == login_build(binding, conf.tmpl, typeErr, nextId) IN
               /\ nextId + Len(b.built) - 1 <= MaxIds
               /\ nextId' = nextId + Len(b.built)
               /\ IF b.outcome = "type_error"
                  THEN /\ last' = [rec2 EXCEPT !.outcome = b.outcome,
                                               !.built = b.built,
                                               !.typeErr = typeErr]
                       /\ UNCHANGED outstanding
                  ELSE /\ outstanding' =
                            [outstanding EXCEPT ![login_store(s)] =
                               oq_set(@, login_session_id(b.built), came_from)]
                       /\ last' = [rec2 EXCEPT !.outcome = b.outcome,
                                               !.built = b.built,
                                               !.id = login_session_id(b.built),
                                               !.carried = b.carried,
                                               !.typeErr = typeErr,
                                               !.sigalg = sigalg,
                                               !.sign = login_sign(binding),
                                               !.relay = came_from,
                                               !.stored = came_from]

(* ---------------------- assertion consumer service -------------------- *)

\* lines 301-326: client.parse_authn_request_response(xmlstr, binding, outstanding).
\* The set of results the toolkit can give for a response: "ok", None, or the
\* exception it raises.  A response that is both uncorrelated and defective can
\* fail with either error: signatures are verified when the message and its
\* assertions are loaded, the validity window when the conditions are read, so
\* which comes first is the toolkit's own business.  Only the status is known
\* to be looked at after the correlation with the outstanding queries.
parse_authn_request_response(kind, irt, defect, queries, allow) ==
  IF kind = "garbled" THEN {None}
  ELSE LET unsolicited == irt \notin DOMAIN queries /\ ~allow
           own == CASE defect = "bad_signature" -> {"SignatureError"}
                    [] defect = "missing_key"   -> {"MissingKey"}
                    [] defect = "too_early"     -> {"ToEarly"}
                    [] defect = "expired"       -> {"ResponseLifetimeExceed"}
                    [] defect = "status_failed" ->
                         IF unsolicited THEN {} ELSE {"StatusError"}
                    [] OTHER -> {}
           errors == own \cup (IF unsolicited THEN {"UnsolicitedResponse"} ELSE {})
       IN  IF errors = {} THEN {"ok"} ELSE errors

\* a view that goes on after an expired response
acs_rejects_lenient(result) == result \notin {"ok", "ResponseLifetimeExceed"}

\* a view that goes on after UnsolicitedResponse
acs_rejects_solicited(result) == result \notin {"ok", "UnsolicitedResponse"}

\* lines 303-330: the results of the parse that end the call in a failure
\* response: every exception the view catches, and None
acs_rejects(result) == result # "ok"

\* an ACS that keeps the outstanding queries of all sessions in one place
acs_store_shared(s) == "A"

\* lines 295-299: the store the ACS reads the outstanding queries from
acs_store(s) == s

\* a view that forgets to delete the consumed exchange
acs_consume_keep(db, irt) == db

\* lines 332-333: the store after a response with session id irt was parsed
acs_consume(db, irt) == oq_delete(db, irt)

\* lines 390-401: build_relay_state, from the RelayState key of the POST data
build_relay_state(relayParam) ==
  LET relay_state == IF relayParam = Absent THEN "/" ELSE relayParam
  IN  IF relay_state = "" THEN LOGIN_REDIRECT_URL ELSE relay_state

\* a view that sends the user to the relay target stored with the exchange
acs_redirect_target_stored(relayParam, storedRelay) ==
  IF storedRelay = None THEN validate_referral_url(build_relay_state(relayParam))
  ELSE storedRelay

\* lines 368-388: where a successful ACS call redirects to (custom_redirect
\* returns None unless a subclass overrides it)
acs_redirect_target(relayParam, storedRelay) ==
  validate_referral_url(build_relay_state(relayParam))

\* lines 328-388: the part of post after the parse returned a response:
\* consume the exchange, authenticate, store the subject id, redirect.
acs_finish(s, irt, matched, storedRelay, name_id, userFound, relayParam, rec) ==
  /\ outstanding' = [outstanding EXCEPT ![acs_store(s)] = acs_consume(@, irt)]
  /\ IF ~userFound
     THEN /\ last' = [rec EXCEPT !.outcome = "PermissionDenied",
                                 !.events = <<"parse", "oq_delete", "authenticate">>]
          /\ UNCHANGED <<subject, is_authenticated>>
     ELSE /\ subject' = [subject EXCEPT ![acs_store(s)] = name_id]
          /\ is_authenticated' = [is_authenticated EXCEPT ![s] = TRUE]
          /\ last' = [rec EXCEPT !.outcome = "redirect",
                                 !.events = <<"parse", "oq_delete", "authenticate",
                                              "set_subject_id", "post_authenticated",
                                              "set_cookie">>,
                                 !.subj = name_id, !.relay = relayParam,
                                 !.location =
                                    acs_redirect_target(relayParam, storedRelay)]

\* lines 301-302 with the toolkit's configuration
acs_parse(x, queries) ==
  parse_authn_request_response(x.kind, x.irt, x.defect, queries, allow_unsolicited)

\* lines 276-388: AssertionConsumerServiceView.post as one call
post(s) ==
  \E x \in PostData :
  LET queries == outstanding_queries(outstanding[acs_store(s)])
      matched == x.kind = "xml" /\ x.irt \in DOMAIN queries
      stored  == IF matched THEN queries[x.irt] ELSE None
      rec     == [Blank EXCEPT !.op = "post", !.sess = s, !.id = x.irt, !.x = x,
                               !.matched = matched, !.stored = stored]
  IN
  /\ UNCHANGED <<conf, allow_unsolicited, state, nextId, acs>>
  /\ IF x.kind = "absent"
     THEN /\ last' = [rec EXCEPT !.outcome = "SuspiciousOperation"]
          /\ UNCHANGED <<outstanding, subject, is_authenticated, correlated>>
     ELSE \E result \in acs_parse(x, queries) :
            IF acs_rejects(result)
            THEN /\ last' = [rec EXCEPT !.outcome = result, !.events = <<"parse">>]
                 /\ UNCHANGED <<outstanding, subject, is_authenticated, correlated>>
            ELSE /\ correlated' = IF matched
                                  THEN [correlated EXCEPT ![x.irt] = @ + 1]
                                  ELSE correlated
                 /\ \E userFound \in BOOLEAN :
                      \E name_id \in IF userFound THEN Subjects ELSE {None},
                         relayParam \in IF userFound THEN RelayParams ELSE {Absent} :
                        acs_finish(s, x.irt, matched, stored, name_id, userFound,
                                   relayParam, rec)

(* -------------- the same call as steps of a concurrent request --------- *)

IdleWorker ==
  [pc |-> "idle", sess |-> None, id |-> 0, matched |-> FALSE, outcome |-> None]

\* lines 286-330: read the outstanding queries and parse the response; a
\* request that ends in a failure response is over
AcsParse(w, s) ==
  \E x \in PostData :
  LET queries == outstanding_queries(outstanding[acs_store(s)])
      matched == x.kind = "xml" /\ x.irt \in DOMAIN queries
  IN
  /\ acs[w].pc \in {"idle", "done"}
  /\ UNCHANGED <<conf, allow_unsolicited, outstanding, subject, is_authenticated, state,
                 nextId, last>>
  /\ IF x.kind = "absent"
     THEN /\ acs' = [acs EXCEPT ![w] = IdleWorker]
          /\ UNCHANGED correlated
     ELSE \E result \in acs_parse(x, queries) :
            IF acs_rejects(result)
            THEN /\ acs' = [acs EXCEPT ![w] = IdleWorker]
                 /\ UNCHANGED correlated
            ELSE /\ acs' = [acs EXCEPT ![w] = [pc |-> "parsed", sess |-> s,
                                               id |-> x.irt, matched |-> matched,
                                               outcome |-> None]]
                 /\ correlated' = IF matched
                                  THEN [correlated EXCEPT ![x.irt] = @ + 1]
                                  ELSE correlated

\* lines 332-333: oq_cache.delete(session_id)
AcsDelete(w) ==
  /\ acs[w].pc = "parsed"
  /\ outstanding' = [outstanding EXCEPT ![acs_store(acs[w].sess)] =
                       acs_consume(@, acs[w].id)]
  /\ acs' = [acs EXCEPT ![w].pc = "deleted"]
  /\ UNCHANGED <<conf, allow_unsolicited, subject, is_authenticated, state, nextId,
                 correlated, last>>

\* lines 335-388: authenticate, store the subject id, set the token cookie
AcsFinish(w, name_id, userFound) ==
  /\ acs[w].pc = "deleted"
  /\ IF ~userFound
     THEN /\ acs' = [acs EXCEPT ![w] = IdleWorker]
          /\ UNCHANGED <<subject, is_authenticated>>
     ELSE /\ acs' = [acs EXCEPT ![w].pc = "done", ![w].outcome = "redirect"]
          /\ subject' = [subject EXCEPT ![acs_store(acs[w].sess)] = name_id]
          /\ is_authenticated' = [is_authenticated EXCEPT ![acs[w].sess] = TRUE]
  /\ UNCHANGED <<conf, allow_unsolicited, outstanding, state, nextId, correlated, last>>

(* ------------------------------ logout -------------------------------- *)

\* what one browser session holds
SessionOf(s) ==
  [oq |-> outstanding[s], subj |-> subject[s], auth |-> is_authenticated[s],
   state |-> state[s]]

\* the session written back at the end of a request
Commit(s, st) ==
  /\ outstanding' = [outstanding EXCEPT ![s] = st.oq]
  /\ subject' = [subject EXCEPT ![s] = st.subj]
  /\ is_authenticated' = [is_authenticated EXCEPT ![s] = st.auth]
  /\ state' = [state EXCEPT ![s] = st.state]

\* line 522, auth.logout(request): the session is flushed and the user of the
\* request becomes anonymous
auth_logout(st) == [oq |-> EmptyMap, subj |-> None, auth |-> FALSE, state |-> {}]

\* lines 520-522: _do_local_logout
do_local_logout(st) ==
  IF st.auth
  THEN [st |-> auth_logout(st), events |-> <<"_do_local_logout", "auth_logout">>]
  ELSE [st |-> st, events |-> <<"_do_local_logout">>]

\* lines 71-79: _get_subject_id
get_subject_id(st) == st.subj

\* a finish_logout that takes a success response only from a logged-in user
finish_logout_once(st, response) ==
  IF response = "response_ok" /\ st.auth
  THEN [outcome |-> "django_logout", st |-> auth_logout(st),
        events |-> <<"finish_logout", "django_logout", "auth_logout">>]
  ELSE [outcome |-> "logout_error", st |-> st, events |-> <<"finish_logout">>]

\* lines 587-596: finish_logout; django_logout is Django's logout view, which
\* logs the request's user out and redirects to next_page
finish_logout(st, response) ==
  IF response = "response_ok"
  THEN [outcome |-> "django_logout", st |-> auth_logout(st),
        events |-> <<"finish_logout", "django_logout", "auth_logout">>]
  ELSE [outcome |-> "logout_error", st |-> st, events |-> <<"finish_logout">>]

\* what global_logout returns for one entity: a (binding, http_info) tuple, named
\* by its binding, or, after a SOAP exchange, the parsed logout response
LogoutInfos ==
  {BINDING_HTTP_POST, BINDING_HTTP_REDIRECT, BINDING_SOAP,
   "response_ok", "response_failed"}

\* the results of global_logout: one logout_info per entity, in the order of the dict
LogoutResults == UNION {[1..n -> LogoutInfos] : n \in 0..MaxEntities}

\* lines 469-472: client.global_logout raises LogoutError or returns a result
GlobalLogoutOutcomes ==
  {[error |-> TRUE, result |-> <<>>]}
    \cup {[error |-> FALSE, result |-> r] : r \in LogoutResults}

\* lines 460-471: the state cache after global_logout.  The toolkit keeps the
\* logout request of every entity it answers with a browser binding as a
\* pending "SLO" operation; when it raises, a request may or may not be stored
global_logout_state(gl) ==
  IF gl.error THEN {{}, {"SLO"}}
  ELSE {IF \E i \in 1..Len(gl.result) :
             gl.result[i] \in {BINDING_HTTP_POST, BINDING_HTTP_REDIRECT}
        THEN {"SLO"} ELSE {}}

\* a logout view that goes to the IdP before logging out locally
logout_first_skip(st) == [st |-> st, events |-> <<>>]

\* line 454: the local logout the logout view starts with
logout_first(st) == do_local_logout(st)

\* a logout view that lets LogoutError through
logout_on_error_propagate(st) ==
  [outcome |-> "LogoutError", st |-> st, events |-> <<>>, delivered |-> {}]

\* lines 472-477: the handler of LogoutError
logout_on_error(st) ==
  LET l == do_local_logout(st)
  IN  [outcome |-> "redirect_logout_url", st |-> l.st,
       events |-> l.events \o <<"state_sync">>, delivered |-> {}]

\* a loop that hands over the message of every entity with a browser binding
logout_loop_every(st, result) ==
  LET browser == {i \in 1..Len(result) :
                    result[i] \in {BINDING_HTTP_POST, BINDING_HTTP_REDIRECT}}
  IN  [outcome |-> IF browser = {} THEN "unknown_binding" ELSE "post_form",
       st |-> st, events |-> <<>>, delivered |-> browser]

\* lines 487-505: the loop over the entities of a result that is not empty
logout_loop(st, result) ==
  LET logout_info == result[1]
  IN  IF logout_info = BINDING_HTTP_POST
      THEN [outcome |-> "post_form", st |-> st, events |-> <<>>, delivered |-> {1}]
      ELSE IF logout_info = BINDING_HTTP_REDIRECT
      THEN [outcome |-> "redirect_to_idp", st |-> st, events |-> <<>>,
            delivered |-> {1}]
      ELSE IF logout_info = BINDING_SOAP
      THEN [outcome |-> "unknown_binding", st |-> st, events |-> <<>>,
            delivered |-> {}]
      ELSE LET f == finish_logout(st, logout_info)
           IN  [outcome |-> f.outcome, st |-> f.st, events |-> f.events,
                delivered |-> {}]

\* lines 447-505: the logout view behind login_required
logout(s) ==
  LET rec == [Blank EXCEPT !.op = "logout", !.sess = s] IN
  /\ UNCHANGED <<conf, allow_unsolicited, nextId, correlated, acs>>
  /\ IF ~is_authenticated[s]
     THEN /\ last' = [rec EXCEPT !.outcome = "redirect_to_login"]
          /\ UNCHANGED <<outstanding, subject, is_authenticated, state>>
     ELSE LET l1 == logout_first(SessionOf(s))
              subject_id == get_subject_id(l1.st)
          IN  \E gl \in GlobalLogoutOutcomes :
              \E pending \in global_logout_state(gl) :
                LET st2 == [l1.st EXCEPT !.state = pending]
                    r == IF gl.error THEN logout_on_error(st2)
                         ELSE IF gl.result = <<>>
                         THEN [outcome |-> "not_logged_in", st |-> st2,
                               events |-> <<"state_sync">>, delivered |-> {}]
                         ELSE LET d == logout_loop(st2, gl.result)
                              IN  [d EXCEPT !.events = <<"state_sync">> \o @]
                IN  /\ Commit(s, r.st)
                    /\ last' = [rec EXCEPT
                                  !.outcome = r.outcome,
                                  !.events = l1.events \o <<"global_logout">>
                                             \o r.events,
                                  !.subj = subject_id,
                                  !.raised = IF gl.error THEN "LogoutError" ELSE None,
                                  !.n = Len(gl.result), !.result = gl.result,
                                  !.delivered = r.delivered]

(* --------------------------- logout service --------------------------- *)

\* the keys of the data posted or sent to the logout endpoint
LogoutData == SUBSET {"SAMLResponse", "SAMLRequest"}

\* lines 508-517: the two endpoints; logout_service passes the GET data and the
\* Redirect binding, logout_service_post the POST data and the POST binding
Endpoints == {"logout_service", "logout_service_post"}

endpoint_binding(endpoint) ==
  IF endpoint = "logout_service" THEN BINDING_HTTP_REDIRECT ELSE BINDING_HTTP_POST

\* lines 512-517: logout_service_post catches every exception, logs it and
\* returns nothing; logout_service lets it through
endpoint_outcome(endpoint, raised) ==
  IF endpoint = "logout_service_post" THEN "returns_None" ELSE raised

\* a dispatch that looks for SAMLRequest first
logout_dispatch_request_first(data) ==
  IF "SAMLRequest" \in data THEN "request"
  ELSE IF "SAMLResponse" \in data THEN "response"
  ELSE "Http404"

\* lines 546, 551, 582: what the data are handled as
logout_dispatch(data) ==
  IF "SAMLResponse" \in data THEN "response"
  ELSE IF "SAMLRequest" \in data THEN "request"
  ELSE "Http404"

\* a handler that leaves the user logged in when the subject id is unknown
logout_request_no_local(st, binding, handled) ==
  LET subject_id == get_subject_id(st) IN
  IF subject_id = None
  THEN [outcome |-> "logout_error_403", st |-> st, events |-> <<>>,
        raised |-> None, subj |-> None, binding |-> None]
  ELSE LET l == do_local_logout(st)
       IN  [outcome |-> handled, st |-> l.st,
            events |-> <<"handle_logout_request">> \o l.events,
            raised |-> None, subj |-> subject_id, binding |-> binding]

\* lines 551-581: a logout request of the IdP
logout_request(st, binding, handled) ==
  LET subject_id == get_subject_id(st) IN
  IF subject_id = None
  THEN LET l == do_local_logout(st)
       IN  [outcome |-> "logout_error_403", st |-> l.st, events |-> l.events,
            raised |-> None, subj |-> None, binding |-> None]
  ELSE IF handled = "raises"
  THEN [outcome |-> None, st |-> st, events |-> <<"handle_logout_request">>,
        raised |-> "toolkit_error", subj |-> subject_id, binding |-> binding]
  ELSE LET l == do_local_logout(st)
       IN  [outcome |-> handled, st |-> l.st,
            events |-> <<"handle_logout_request">> \o l.events,
            raised |-> None, subj |-> subject_id, binding |-> binding]

\* lines 525-584 behind one of the endpoints of lines 508-517
do_logout_service(s, endpoint) ==
  \E data \in LogoutData :
  LET rec == [Blank EXCEPT !.op = "logout_service", !.sess = s]
      binding == endpoint_binding(endpoint)
      st == SessionOf(s)
      done(r) ==
        /\ Commit(s, r.st)
        /\ last' = [rec EXCEPT
                      !.response = r.response,
                      !.again = (last.op = "logout_service" /\ last.sess = s
                                 /\ last.data = data
                                 /\ last.response = r.response),
                      !.outcome = IF r.raised = None THEN r.outcome
                                  ELSE endpoint_outcome(endpoint, r.raised),
                      !.events = <<"state_sync">> \o r.events,
                      !.raised = r.raised, !.subj = r.subj, !.data = data,
                      !.binding = r.binding, !.location = endpoint]
  IN
  /\ UNCHANGED <<conf, allow_unsolicited, nextId, correlated, acs>>
  /\ IF logout_dispatch(data) = "response"
     THEN \E response \in {"raises", None, "response_ok", "response_failed"} :
            IF response = "raises"
            THEN done([outcome |-> None, st |-> st,
                       events |-> <<"parse_logout_request_response">>,
                       raised |-> "toolkit_error", subj |-> None,
                       binding |-> binding, response |-> response])
            ELSE LET f == finish_logout(st, response)
                 IN  done([outcome |-> f.outcome, st |-> f.st,
                           events |-> <<"parse_logout_request_response">>
                                      \o f.events,
                           raised |-> None, subj |-> None, binding |-> binding,
                           response |-> response])
     ELSE IF logout_dispatch(data) = "request"
     THEN \E handled \in {"raises", "post_form", "redirect"} :
            done([response |-> None] @@ logout_request(st, binding, handled))
     ELSE done([outcome |-> None, st |-> st, events |-> <<>>,
                raised |-> "Http404", subj |-> None, binding |-> None,
                response |-> None])

(* --------------------------- specification ---------------------------- *)

\* the state before the first request of a deployment with one of the
\* configurations cs
InitWith(cs) ==
  /\ conf \in cs
  /\ allow_unsolicited \in BOOLEAN
  /\ outstanding = [s \in Sessions |-> EmptyMap]
  /\ subject = [s \in Sessions |-> None]
  /\ is_authenticated \in [Sessions -> BOOLEAN]
  /\ state = [s \in Sessions |-> {}]
  /\ \A s \in Sessions \ OneSession : ~is_authenticated[s]
  /\ nextId = 1
  /\ correlated = [i \in ResponseIds |-> 0]
  /\ acs = [w \in Workers |-> IdleWorker]
  /\ last = Blank

\* one IdP reached by redirect without signature
RedirectConf ==
  [nIdps |-> 1, sign_requests |-> FALSE,
   supported |-> {BINDING_HTTP_REDIRECT, BINDING_HTTP_POST},
   tmpl |-> "ok", sig_alg_option |-> "sha1"]

\* Spec: all views of one session
Init == InitWith({RedirectConf})

Next ==
  \E s \in OneSession :
    \/ login(s)
    \/ post(s)
    \/ logout(s)
    \/ \E endpoint \in Endpoints : do_logout_service(s, endpoint)

Spec == Init /\ [][Next]_vars

\* SpecConc: the logins send the user to the IdP by redirect; two requests of
\* the session run the ACS view at the same time
InitConc == InitWith({RedirectConf})

NextConc ==
  \/ \E s \in OneSession : login(s) /\ last'.outcome = "redirect_to_idp"
  \/ \E w \in Workers, s \in OneSession : AcsParse(w, s)
  \/ \E w \in Workers : AcsDelete(w)
  \/ \E w \in Workers, name_id \in Subjects, userFound \in BOOLEAN :
       AcsFinish(w, name_id, userFound)

SpecConc == InitConc /\ [][NextConc]_vars

\* SpecLogin: the login view in two sessions, under every configuration
InitLogin == InitWith(Confs)

NextLogin == \E s \in Sessions : login(s)

SpecLogin == InitLogin /\ [][NextLogin]_vars

\* SpecTwo: two browser sessions log in and post responses to the ACS of an SP
\* that takes no unsolicited responses
InitTwo == InitWith({RedirectConf}) /\ ~allow_unsolicited

NextTwo == \E s \in Sessions : login(s) \/ post(s)

SpecTwo == InitTwo /\ [][NextTwo]_vars

\* SpecAcs: the login view and the ACS view of one session
InitAcs == InitWith({RedirectConf})

NextAcs == \E s \in OneSession : login(s) \/ post(s)

SpecAcs == InitAcs /\ [][NextAcs]_vars

(* ------------------------------ properties ---------------------------- *)

PostSucceeded == last.op = "post" /\ last.outcome = "redirect"

LogoutRan == last.op = "logout" /\ last.outcome # "redirect_to_login"

\* C1: exactly-once consumption.  A request id recorded by login is matched
\* to a response by the ACS at most once, and once it was matched it is in no
\* session's outstanding set any more, so no later call matches it again.
C1_ExactlyOnce ==
  \A i \in Ids :
    /\ correlated[i] <= 1
    /\ correlated[i] = 1 => \A s \in Sessions : i \notin DOMAIN outstanding[s]

\* a second call with a sound response for an id that was consumed before
C1_Witness ==
  /\ last.op = "post" /\ last.x.kind = "xml" /\ last.x.defect = "none"
  /\ last.id \in Ids /\ correlated[last.id] = 1
  /\ ~last.matched /\ last.outcome = "UnsolicitedResponse"

C3_AtomicTake ==
  \A w1, w2 \in Workers :
    ~ /\ w1 # w2
      /\ acs[w1].pc = "done" /\ acs[w2].pc = "done"
      /\ acs[w1].matched /\ acs[w2].matched
      /\ acs[w1].sess = acs[w2].sess /\ acs[w1].id = acs[w2].id
      /\ acs[w1].outcome = "redirect" /\ acs[w2].outcome = "redirect"

\* C4 as claimed: an ACS call that ends in a failure response leaves the
\* outstanding exchanges of the session as they were before the call.
C4_FailureKeepsExchanges ==
  [][(last'.op = "post" /\ last'.outcome # "redirect")
       => outstanding' = outstanding]_vars

\* C5 as claimed: with unsolicited responses disallowed, a response whose
\* InResponseTo is not outstanding always fails with UnsolicitedResponse,
\* whatever else is wrong with it.
C5_AlwaysUnsolicited ==
  (last.op = "post" /\ last.x.kind = "xml" /\ ~last.matched /\ ~allow_unsolicited)
    => last.outcome = "UnsolicitedResponse"

\* C5 amended: with unsolicited responses disallowed, a response whose
\* InResponseTo is not outstanding is always rejected, in every state of the
\* store; the failure is UnsolicitedResponse whenever its signature and its
\* validity window raise no error of their own, whatever its status.
C5_UnsolicitedRejected ==
  (last.op = "post" /\ last.x.kind = "xml" /\ ~last.matched /\ ~allow_unsolicited)
    => /\ last.outcome \in {"UnsolicitedResponse", "SignatureError", "MissingKey",
                            "ToEarly", "ResponseLifetimeExceed"}
       /\ last.x.defect \in {"none", "status_failed"}
            => last.outcome = "UnsolicitedResponse"

\* a response with a failed status for a consumed id, while another exchange
\* is outstanding
C5_Witness ==
  /\ last.op = "post" /\ ~allow_unsolicited /\ ~last.matched
  /\ last.x.defect = "status_failed" /\ last.outcome = "UnsolicitedResponse"
  /\ last.id \in Ids /\ correlated[last.id] = 1
  /\ DOMAIN outstanding[last.sess] # {}

\* C6 as claimed: every run of the logout view performs the local logout
\* exactly once.
C6_LocalLogoutOnce ==
  LogoutRan => Count(last.events, "auth_logout") = 1

\* C7: in every run of the logout view the local logout comes before
\* global_logout, and the user is logged out locally when the view returns.
C7_LocalBeforeRemote ==
  LogoutRan =>
    /\ FirstIndex(last.events, "auth_logout") >= 1
    /\ FirstIndex(last.events, "auth_logout")
         < FirstIndex(last.events, "global_logout")
    /\ ~is_authenticated[last.sess]

\* a run of the logout view that ends in a server error for an unknown
\* binding, with the user logged out
C7_Witness ==
  /\ LogoutRan /\ last.outcome = "unknown_binding"
  /\ last.events = <<"_do_local_logout", "auth_logout", "global_logout", "state_sync">>
  /\ ~is_authenticated[last.sess]

\* C8 as claimed: every entity of the result with a browser binding gets its
\* redirect or form handed to the caller.
C8_EveryEntityDelivered ==
  (LogoutRan /\ last.n >= 1) =>
    \A i \in 1..last.n :
      last.result[i] \in {BINDING_HTTP_POST, BINDING_HTTP_REDIRECT}
        => i \in last.delivered

\* C8 amended: of a result with n >= 1 entities the logout view hands at most
\* one message to the caller, that of the first entity, and only when its
\* binding is POST or Redirect; the other entities get nothing.
C8_OnlyFirstDelivered ==
  (LogoutRan /\ last.n >= 1) =>
    /\ last.delivered \subseteq {1}
    /\ 1 \in last.delivered
         <=> last.result[1] \in {BINDING_HTTP_POST, BINDING_HTTP_REDIRECT}

\* two entities with a browser binding, of which the first is served
C8_Witness ==
  /\ LogoutRan /\ last.n = 2
  /\ last.result[1] = BINDING_HTTP_REDIRECT /\ last.result[2] = BINDING_HTTP_POST
  /\ last.delivered = {1}

\* C9 as claimed: when global_logout raises LogoutError the view surfaces the
\* error to the caller and the user is logged out locally.
C9_ErrorSurfaced ==
  (LogoutRan /\ last.raised = "LogoutError") =>
    /\ last.outcome = "LogoutError"
    /\ ~is_authenticated[last.sess]

\* C9 amended: when global_logout raises LogoutError the view completes the
\* local logout and redirects the caller to LOGOUT_REDIRECT_URL; the error is
\* logged, not surfaced, and no entity's logout message is handed over.
C9_ErrorHandled ==
  (LogoutRan /\ last.raised = "LogoutError") =>
    /\ last.outcome = "redirect_logout_url"
    /\ last.delivered = {}
    /\ ~is_authenticated[last.sess]
    /\ Count(last.events, "auth_logout") = 1

\* global_logout raised in a run of the logout view
C9_Witness ==
  /\ LogoutRan /\ last.raised = "LogoutError"
  /\ last.outcome = "redirect_logout_url"

\* C10: a logout request of the IdP (SAMLRequest without SAMLResponse).  With
\* no subject id in the session the user is logged out locally, the toolkit
\* is not asked for a LogoutResponse and the error page is returned.  With a
\* subject id the toolkit is asked for a LogoutResponse for that subject id
\* and the binding of the endpoint, and what it builds is returned.
C10_IdpLogoutRequest ==
  [][(last'.op = "logout_service" /\ last'.data = {"SAMLRequest"}) =>
       LET s == last'.sess
           asked == Count(last'.events, "handle_logout_request")
       IN  IF subject[s] = None
           THEN /\ asked = 0
                /\ last'.outcome = "logout_error_403"
                /\ Count(last'.events, "_do_local_logout") = 1
                /\ ~is_authenticated'[s]
           ELSE /\ asked = 1
                /\ last'.subj = subject[s]
                /\ last'.location = "logout_service"
                     => last'.binding = BINDING_HTTP_REDIRECT
                /\ last'.location = "logout_service_post"
                     => last'.binding = BINDING_HTTP_POST
                /\ last'.raised = None
                     => /\ last'.outcome \in {"post_form", "redirect"}
                        /\ ~is_authenticated'[s]]_vars

\* an authenticated user without subject id was logged out and got the error page
C10_Witness ==
  /\ last.op = "logout_service" /\ last.data = {"SAMLRequest"}
  /\ last.subj = None /\ last.outcome = "logout_error_403"
  /\ last.events = <<"state_sync", "_do_local_logout", "auth_logout">>
  /\ ~is_authenticated[last.sess]

\* a LogoutResponse was built for the subject id of the session and returned
C10_WitnessKnown ==
  /\ last.op = "logout_service" /\ last.data = {"SAMLRequest"}
  /\ last.subj \in Subjects /\ last.outcome = "post_form"
  /\ last.binding = BINDING_HTTP_POST
  /\ ~is_authenticated[last.sess]

\* C11 as claimed: a call of a logout endpoint that hits an error in
\* do_logout_service (the toolkit raises, or the data carry neither
\* SAMLResponse nor SAMLRequest) hands that error to the caller; it never
\* returns nothing.
C11_ErrorsTyped ==
  (last.op = "logout_service" /\ last.raised # None)
    => /\ last.outcome = last.raised
       /\ last.outcome # "returns_None"

\* C12: processing a LogoutResponse with success status a second time, right
\* after it was processed, is accepted like the first time (the Django logout
\* runs and redirects, nothing is raised) and leaves the outstanding queries,
\* the subject id, the logout state and the authentication state of the
\* session as the first processing left them.
C12_DuplicateIdempotent ==
  [][(last'.op = "logout_service" /\ last'.again
        /\ last'.response = "response_ok")
       => /\ last'.outcome = "django_logout"
          /\ last'.raised = None
          /\ last.outcome = "django_logout"
          /\ outstanding'[last'.sess] = outstanding[last'.sess]
          /\ subject'[last'.sess] = subject[last'.sess]
          /\ state'[last'.sess] = state[last'.sess]
          /\ is_authenticated'[last'.sess] = is_authenticated[last'.sess]
          /\ ~is_authenticated'[last'.sess]]_vars

\* a LogoutResponse with success status was processed twice in a row
C12_Witness ==
  /\ last.op = "logout_service" /\ last.again
  /\ last.response = "response_ok" /\ last.outcome = "django_logout"
  /\ "SAMLResponse" \in last.data
  /\ state[last.sess] = {} /\ ~is_authenticated[last.sess]

\* a login call that got as far as the choice of the binding
LoginChoseBinding ==
  /\ last.op = "login"
  /\ last.outcome \notin {"redirect_came_from", "authorization_error",
                          "source_not_found", "discovery",
                          "IdPConfigurationMissing"}

\* a login call that returned a response carrying an AuthnRequest
LoginSent ==
  /\ last.op = "login"
  /\ last.outcome \in {"redirect_to_idp", "post_form_template", "post_form_default"}

\* C13: binding selection in login.  The first choice is HTTP-POST when
\* sign_requests is set and HTTP-Redirect otherwise; when the IdP does not
\* support it the other of the two is used if the IdP supports that; when it
\* supports neither, login fails with UnsupportedBinding and builds no
\* request; a binding that is used is one the IdP supports.
C13_BindingSelection ==
  LoginChoseBinding =>
    LET first == IF conf.sign_requests THEN BINDING_HTTP_POST
                 ELSE BINDING_HTTP_REDIRECT
        other == IF conf.sign_requests THEN BINDING_HTTP_REDIRECT
                 ELSE BINDING_HTTP_POST
    IN  /\ first \in conf.supported => last.binding = first
        /\ (first \notin conf.supported /\ other \in conf.supported)
             => last.binding = other
        /\ (first \notin conf.supported /\ other \notin conf.supported)
             => /\ last.outcome = "UnsupportedBinding"
                /\ last.built = <<>> /\ last.binding = None
        /\ last.outcome # "UnsupportedBinding" => last.binding \in conf.supported

\* signed requests to an IdP that takes HTTP-Redirect only: the fallback is used
C13_Witness ==
  /\ last.op = "login" /\ conf.sign_requests
  /\ conf.supported = {BINDING_HTTP_REDIRECT}
  /\ last.binding = BINDING_HTTP_REDIRECT /\ last.outcome = "redirect_to_idp"

\* C14: a login call of an anonymous user whose configuration loads.  With
\* more than one IdP and no idp parameter it returns the discovery page,
\* builds no request and records no exchange; with an idp parameter, or with
\* exactly one IdP, it never returns the discovery page.
C14_Discovery ==
  [][(last'.op = "login" /\ ~is_authenticated[last'.sess]
        /\ last'.outcome # "source_not_found")
       => /\ (conf.nIdps > 1 /\ ~last'.idpParam)
               => /\ last'.outcome = "discovery"
                  /\ last'.built = <<>> /\ nextId' = nextId
                  /\ outstanding' = outstanding
          /\ (last'.idpParam \/ conf.nIdps = 1)
               => last'.outcome # "discovery"]_vars

\* the discovery page is returned while an exchange of an earlier login with
\* an idp parameter is outstanding
C14_Witness ==
  /\ last.op = "login" /\ last.outcome = "discovery"
  /\ conf.nIdps = 2 /\ ~last.idpParam
  /\ DOMAIN outstanding[last.sess] # {}

\* C15: with no usable IdP, a login call of an anonymous user whose
\* configuration loads fails with IdPConfigurationMissing, with and without
\* an idp parameter; it builds no request and records no exchange.
C15_NoIdp ==
  [][(last'.op = "login" /\ ~is_authenticated[last'.sess]
        /\ last'.outcome # "source_not_found" /\ conf.nIdps = 0)
       => /\ last'.outcome = "IdPConfigurationMissing"
          /\ last'.built = <<>> /\ nextId' = nextId
          /\ outstanding' = outstanding]_vars

\* IdPConfigurationMissing although an idp parameter was supplied
C15_Witness ==
  /\ last.op = "login" /\ last.outcome = "IdPConfigurationMissing"
  /\ conf.nIdps = 0 /\ last.idpParam

\* C16: with one IdP that supports HTTP-Redirect and sign_requests unset,
\* login uses HTTP-Redirect, and the request it sends carries the relay
\* target as RelayState, no sigalg and sign=False.  On the Redirect path a
\* sigalg is passed if and only if sign_requests is set.
C16_RedirectUnsigned ==
  /\ (LoginChoseBinding /\ conf.nIdps = 1 /\ ~conf.sign_requests
        /\ BINDING_HTTP_REDIRECT \in conf.supported)
       => /\ last.binding = BINDING_HTTP_REDIRECT
          /\ last.outcome \in {"redirect_to_idp", "type_error"}
          /\ last.typeErr = "none" => last.outcome = "redirect_to_idp"
          /\ last.outcome = "redirect_to_idp"
               => /\ last.relay = last.location
                  /\ last.sigalg = None /\ last.sign = "False"
  /\ (LoginSent /\ last.binding = BINDING_HTTP_REDIRECT)
       => /\ last.sigalg # None <=> conf.sign_requests
          /\ last.sign = "False"

\* one IdP, no signature: the redirect carries the relay target and no sigalg
C16_Witness ==
  /\ LoginSent /\ conf.nIdps = 1 /\ ~conf.sign_requests
  /\ last.binding = BINDING_HTTP_REDIRECT
  /\ last.relay = "/dashboard" /\ last.sigalg = None

\* signed requests on the Redirect path: the sigalg is passed
C16_WitnessSigned ==
  /\ LoginSent /\ conf.sign_requests /\ last.binding = BINDING_HTTP_REDIRECT
  /\ last.sigalg = "SIG_RSA_SHA256"

\* C17: on the POST binding, when the form template is None or does not
\* exist and the toolkit raises no TypeError, login does not fail: it returns
\* the default form of the toolkit and records the exchange of the request in
\* that form.
C17_TemplateFallback ==
  (LoginChoseBinding /\ last.binding = BINDING_HTTP_POST
     /\ conf.tmpl \in {"none", "missing"})
    => /\ last.outcome \in {"post_form_default", "type_error"}
       /\ last.typeErr = "none"
            => /\ last.outcome = "post_form_default"
               /\ last.carried \in DOMAIN outstanding[last.sess]
               /\ outstanding[last.sess][last.carried] = last.location

\* the template does not exist: a second request is built for the default form
C17_Witness ==
  /\ last.op = "login" /\ last.binding = BINDING_HTTP_POST
  /\ conf.tmpl = "missing" /\ last.outcome = "post_form_default"
  /\ Len(last.built) = 2 /\ last.carried = last.built[2]
  /\ last.carried \in DOMAIN outstanding[last.sess]

C18_WitnessNotFound ==
  /\ last.op = "logout_service" /\ last.data = {}
  /\ last.raised = "Http404" /\ is_authenticated[last.sess]

\* C19: session isolation.  A login in one session leaves the outstanding
\* set of every other session as it was; with unsolicited responses
\* disallowed, a response to a request that is outstanding in another session
\* is not matched and not accepted by the ACS of this session, and the
\* exchange of the other session stays outstanding.
C19_SessionIsolation ==
  [][/\ last'.op = "login"
          => \A o \in Sessions \ {last'.sess} : outstanding'[o] = outstanding[o]
     /\ (last'.op = "post" /\ ~allow_unsolicited /\ last'.x.kind = "xml")
          => \A o \in Sessions \ {last'.sess} :
               last'.id \in DOMAIN outstanding[o]
                 => /\ ~last'.matched
                    /\ last'.outcome # "redirect"
                    /\ last'.outcome \in {"UnsolicitedResponse", "SignatureError",
                                          "MissingKey", "ToEarly",
                                          "ResponseLifetimeExceed"}
                    /\ outstanding'[o] = outstanding[o]]_vars

\* a sound response to a request of session A was posted in session B
C19_Witness ==
  /\ last.op = "post" /\ last.sess = "B" /\ ~allow_unsolicited
  /\ last.x.kind = "xml" /\ last.x.defect = "none"
  /\ last.id \in DOMAIN outstanding["A"]
  /\ DOMAIN outstanding["B"] # {}
  /\ last.outcome = "UnsolicitedResponse"

\* C20: a login call that returns a response carrying an AuthnRequest
\* records exactly one new exchange in the store of its session: its key is
\* the id of the request carried in the response (with a missing form
\* template the second request built, not the discarded first one), its
\* value the validated relay target.  Every other outcome leaves the store
\* as it was.  No request id is outstanding in more than one exchange.
C20_OneExchangePerRequest ==
  [][last'.op = "login" =>
       LET s == last'.sess
           c == last'.carried
       IN  /\ IF last'.outcome \in {"redirect_to_idp", "post_form_template",
                                     "post_form_default"}
              THEN /\ c \in Ids /\ c \notin DOMAIN outstanding[s]
                   /\ c = last'.built[Len(last'.built)]
                   /\ (last'.binding = BINDING_HTTP_POST /\ conf.tmpl = "missing")
                        => /\ Len(last'.built) = 2
                           /\ last'.built[1] \notin DOMAIN outstanding'[s]
                   /\ DOMAIN outstanding'[s] = DOMAIN outstanding[s] \cup {c}
                   /\ outstanding'[s][c] = last'.location
                   /\ outstanding'[s][c] \in SafeUrls \cup {LOGIN_REDIRECT_URL}
                   /\ \A i \in DOMAIN outstanding[s] :
                        outstanding'[s][i] = outstanding[s][i]
              ELSE /\ last'.outcome \in
                        {"redirect_came_from", "authorization_error",
                         "source_not_found", "discovery", "IdPConfigurationMissing",
                         "UnsupportedBinding", "KeyError", "type_error"}
                   /\ outstanding' = outstanding
           /\ \A o \in Sessions \ {s} : outstanding'[o] = outstanding[o]
           /\ \A i \in Ids :
                Cardinality({o \in Sessions : i \in DOMAIN outstanding'[o]}) <= 1]_vars

\* the form template is missing: the exchange is that of the second request
C20_Witness ==
  /\ last.op = "login" /\ last.outcome = "post_form_default"
  /\ conf.tmpl = "missing" /\ last.built = <<1, 2>> /\ last.carried = 2
  /\ DOMAIN outstanding[last.sess] = {2}
  /\ outstanding[last.sess][2] = "/dashboard"

C22_SubjectReadableAtLogout ==
  [][(last.op = "post" /\ last.outcome = "redirect"
        /\ last'.op = "logout" /\ last'.sess = last.sess)
       => /\ Count(last'.events, "global_logout") = 1
          /\ last'.subj = last.subj
          /\ last'.subj # None]_vars

\* the authentication effects of an ACS call: the subject id is stored, the
\* post_authenticated signal is sent, the token cookie is set
AuthEffects(events) ==
  Count(events, "set_subject_id") + Count(events, "post_authenticated")
    + Count(events, "set_cookie")

\* C23: authentication effects only after full validation.  An ACS call
\* stores a subject id, sends post_authenticated and sets the token cookie
\* only if the parse raised no validation error and returned a response, and
\* authenticate returned a user, in that order; any other call leaves the
\* subject id and the authentication state of the session alone.  An expired
\* response is rejected although it is correlated and its signature is good.
C23_EffectsAfterValidation ==
  /\ [](last.op = "post" =>
         LET s == last.sess
             ev == last.events
         IN  /\ AuthEffects(ev) \in {0, 3}
             /\ AuthEffects(ev) = 3 <=> last.outcome = "redirect"
             /\ AuthEffects(ev) = 3
                  => /\ last.x.kind = "xml" /\ last.x.defect = "none"
                     /\ last.matched \/ allow_unsolicited
                     /\ FirstIndex(ev, "parse") = 1
                     /\ Count(ev, "authenticate") = 1
                     /\ FirstIndex(ev, "authenticate")
                          < FirstIndex(ev, "set_subject_id")
                     /\ subject[s] = last.subj /\ last.subj \in Subjects
             /\ last.x.defect = "expired"
                  => /\ AuthEffects(ev) = 0
                     /\ last.outcome \in {"ResponseLifetimeExceed",
                                          "UnsolicitedResponse"}
                     /\ last.matched => last.outcome = "ResponseLifetimeExceed")
  /\ [][(last'.op = "post" /\ last'.outcome # "redirect")
          => /\ subject' = subject
             /\ is_authenticated' = is_authenticated]_vars

\* an expired response to an outstanding request was rejected and left the
\* session anonymous
C23_Witness ==
  /\ last.op = "post" /\ last.matched /\ last.x.defect = "expired"
  /\ last.outcome = "ResponseLifetimeExceed"
  /\ last.id \in DOMAIN outstanding[last.sess]
  /\ subject[last.sess] = None /\ ~is_authenticated[last.sess]

\* C24 as claimed: every call of do_logout_service that handles a logout
\* request of the IdP leaves the user logged out locally when it ends, also
\* when handle_logout_request raises.
C24_IdpLogoutAlwaysLocal ==
  (last.op = "logout_service" /\ last.data = {"SAMLRequest"})
    => ~is_authenticated[last.sess]

=============================================================================
